---- MODULE Spec2Model ----
(***************************************************************************)
(* A model of the ai-modernization-engine content pipeline:                *)
(*   ingest_sources.py      RSS ingestion with a persisted dedupe set      *)
(*   summarize_articles.py  batch summarisation of unprocessed rows        *)
(*   build_weekly_draft.py  weekly draft builder with a duplicate check    *)
(*   relevance.py, extractor.py, notion_api.py, utils.py  helpers          *)
(*                                                                         *)
(* The pipeline is the specification Spec.  The pure functions are checked *)
(* under their own specifications (SpecDate, SpecScore, SpecJson,          *)
(* SpecExcerpt): Init draws a call from a bounded set of arguments and one *)
(* action applies the function and records what it returns.                *)
(***************************************************************************)
EXTENDS Integers, Sequences, FiniteSets, TLC

VARIABLES
    now,      \* the UTC clock: proleptic Gregorian ordinal of the current day
    seen,     \* rss_seen.db: the set of urls in table seen_urls
    rows,     \* the Research Library: a sequence of rows, the page id is the index
    queue,    \* the Content Queue: a sequence of pages
    ipc,      \* ingest(): position of the ingestion run
    spc,      \* summarize run(): position, the queried batch and the loop index
    dpc,      \* build_weekly_draft main(): per process, position and locals
    call,     \* a call of a pure function: its name and arguments
    ret       \* what that call returned (NoRet while it has not been applied)

pipeVars == <<now, seen, rows, queue, ipc, spc, dpc>>
vars == <<now, seen, rows, queue, ipc, spc, dpc, call, ret>>

NoRet == [kind |-> "none"]
NoCall == [fn |-> "none"]

Min(a, b) == IF a <= b THEN a ELSE b
Max(a, b) == IF a >= b THEN a ELSE b

(***************************************************************************)
(* datetime: the calendar arithmetic the draft builder relies on           *)
(* (datetime.weekday, timedelta, date.isoformat, date.fromisoformat,       *)
(* date.isocalendar), after CPython's Lib/_pydatetime.py.                  *)
(***************************************************************************)
FirstYear == 2024
LastYear == 2026

IsLeap(y) == y % 4 = 0 /\ (y % 100 # 0 \/ y % 400 = 0)

\* _days_before_year: number of days before January 1st of year y
DaysBeforeYear(y) ==
    LET p == y - 1 IN p * 365 + (p \div 4) - (p \div 100) + (p \div 400)

DaysInMonth(y, m) ==
    IF m = 2 THEN (IF IsLeap(y) THEN 29 ELSE 28)
    ELSE IF m \in {4, 6, 9, 11} THEN 30 ELSE 31

RECURSIVE DaysBeforeMonth(_, _)
DaysBeforeMonth(y, m) ==
    IF m = 1 THEN 0 ELSE DaysBeforeMonth(y, m - 1) + DaysInMonth(y, m - 1)

\* _ymd2ord: a date <<y, m, d>> to its ordinal (0001-01-01 is day 1)
Ymd2Ord(t) == DaysBeforeYear(t[1]) + DaysBeforeMonth(t[1], t[2]) + t[3]

\* _ord2ymd: the inverse of _ymd2ord, over the years of the model
Ord2Ymd(n) ==
    LET y == CHOOSE yy \in (FirstYear - 1)..(LastYear + 1) :
                 DaysBeforeYear(yy) < n /\ n <= DaysBeforeYear(yy + 1)
        r == n - DaysBeforeYear(y)
        m == CHOOSE mm \in 1..12 :
                 DaysBeforeMonth(y, mm) < r
                 /\ r <= DaysBeforeMonth(y, mm) + DaysInMonth(y, mm)
    IN <<y, m, r - DaysBeforeMonth(y, m)>>

\* date.weekday(): Monday is 0, Sunday is 6
Weekday(n) == (n + 6) % 7

\* _isoweek1monday: ordinal of the Monday of ISO week 1 of year y
IsoWeek1Monday(y) ==
    LET firstday == Ymd2Ord(<<y, 1, 1>>)
        firstweekday == (firstday + 6) % 7
        week1monday == firstday - firstweekday
    IN IF firstweekday > 3 THEN week1monday + 7 ELSE week1monday

\* date.isocalendar(): <<ISO year, ISO week, ISO weekday>> of the day n
IsoCalendar(n) ==
    LET year == Ord2Ymd(n)[1]
        w1 == IsoWeek1Monday(year)
        week == (n - w1) \div 7
        day == (n - w1) % 7
    IN IF n < w1
       THEN LET w0 == IsoWeek1Monday(year - 1)
            IN <<year - 1, ((n - w0) \div 7) + 1, ((n - w0) % 7) + 1>>
       ELSE IF week >= 52 /\ n >= IsoWeek1Monday(year + 1)
            THEN <<year + 1, 1, day + 1>>
            ELSE <<year, week + 1, day + 1>>

\* date.isoformat() / date.fromisoformat(): the text "YYYY-MM-DD" is kept as
\* its three fields <<y, m, d>>; formatting goes ordinal -> fields, parsing
\* goes fields -> ordinal.
IsoFormat(n) == Ord2Ymd(n)
FromIsoFormat(t) == Ymd2Ord(t)

(***************************************************************************)
(* build_weekly_draft.py: week key and topic rotation                      *)
(***************************************************************************)
TOPIC_ROTATION ==
    << "Operating Model & Governance",
       "AI-Enabled Program Management",
       "Platform Engineering & Modernization",
       "Workflow Automation & Agentic Ops",
       "Metrics, Signals & Decision Velocity" >>

\* a bug: isoweekday() % 7 (Sunday is 0) in place of weekday()
monday_week_of_iso_sunday(now_utc) ==
    IsoFormat(now_utc.day - ((now_utc.day + 7) % 7))

\* an instant is [day |-> ordinal, sec |-> second of the day]; subtracting
\* timedelta(days=weekday) keeps the time of day, .date() drops it
monday_week_of_iso(now_utc) ==
    IsoFormat(now_utc.day - Weekday(now_utc.day))

\* a bug: the rotation taken modulo one less than the table's length
pick_topic_for_week_short(week_of_iso) ==
    LET iso_week == IsoCalendar(FromIsoFormat(week_of_iso))[2]
    IN TOPIC_ROTATION[(iso_week % (Len(TOPIC_ROTATION) - 1)) + 1]

pick_topic_for_week(week_of_iso) ==
    LET dt == FromIsoFormat(week_of_iso)
        iso_week == IsoCalendar(dt)[2]
        idx == iso_week % Len(TOPIC_ROTATION)
    IN TOPIC_ROTATION[idx + 1]

(***************************************************************************)
(* config.py, relevance.py: the deterministic relevance score              *)
(***************************************************************************)
KEYWORDS ==
    << "operating model", "governance", "portfolio governance",
       "decision rights", "decision velocity", "prioritization",
       "capital allocation", "resource allocation", "organizational design",
       "coordination debt",
       "program management", "technical program management",
       "portfolio management", "roadmap alignment", "cross-functional",
       "execution systems", "delivery system", "dependency management",
       "AI transformation", "AI strategy", "agentic", "automation",
       "workflow automation", "intelligent systems",
       "augmented decision-making", "AI operating model",
       "platform engineering", "internal developer platform", "modernization",
       "cloud architecture", "reliability engineering", "observability",
       "platform governance",
       "metrics", "measurement", "leading indicators", "lagging indicators",
       "performance systems", "risk management", "feedback loops",
       "change management", "transformation", "organizational transformation",
       "enterprise agility", "value stream" >>

\* <<a, b>>: keyword a, lower-cased, is a substring of keyword b, lower-cased
KeywordInside ==
    { <<"operating model", "AI operating model">>,
      <<"governance", "portfolio governance">>,
      <<"governance", "platform governance">>,
      <<"program management", "technical program management">>,
      <<"automation", "workflow automation">>,
      <<"transformation", "AI transformation">>,
      <<"transformation", "organizational transformation">> }

\* A text is kept as the set of keyword phrases written in it (in any case);
\* `kw.lower() in text` is then: kw is written in it, or a phrase written in
\* it has kw inside.
KwInText(kw, text) == kw \in text \/ \E m \in text : <<kw, m>> \in KeywordInside

\* SOURCE_WEIGHTS in the table's (insertion) order; weights in hundredths
SOURCE_WEIGHTS ==
    << <<"Harvard Business Review", 120>>, <<"MIT Sloan Management Review", 120>>,
       <<"McKinsey", 115>>, <<"InfoQ", 110>>, <<"Thoughtworks", 110>>,
       <<"CNCF", 105>>, <<"Atlassian", 105>>,
       <<"AWS", 100>>, <<"Google", 100>>, <<"Microsoft", 100>> >>

\* A source name is kept as the set of table keys that occur in it.
RECURSIVE SourceMult(_, _)
SourceMult(source, i) ==
    IF i > Len(SOURCE_WEIGHTS) THEN 100
    ELSE IF SOURCE_WEIGHTS[i][1] \in source THEN SOURCE_WEIGHTS[i][2]
    ELSE SourceMult(source, i + 1)

\* A published_iso value: None, the empty string, a text that
\* datetime.fromisoformat rejects, or the text of an instant.
NoDate == [kind |-> "None"]
EmptyDate == [kind |-> "empty"]
BadDate == [kind |-> "unparseable"]
IsoInstant(d, s) == [kind |-> "instant", day |-> d, sec |-> s]

\* (now - pub).days: whole days, rounded down, between two instants
AgeDays(now_utc, pub) ==
    ((now_utc.day - pub.day) * 86400 + (now_utc.sec - pub.sec)) \div 86400

\* Scores are exact rationals kept as integers: ScoreScale stands for 1.0,
\* so 100.0 is 100 * ScoreScale.  (The float computation agrees with the
\* exact one on the sign of score - 70.0 and on the bounds for every
\* keyword count, multiplier and age of -39 .. 399 days.)
ScoreScale == 600

\* recency_score * 6, lines 35-45: 0 when published_iso is falsy, the
\* fallback 8.0 when it does not parse, else the linear decay
RecencyTimes6(now_utc, published_iso) ==
    IF published_iso.kind \in {"None", "empty"} THEN 0
    ELSE IF published_iso.kind = "unparseable" THEN 8 * 6
    ELSE LET age_days == AgeDays(now_utc, published_iso)
         IN Max(0, 150 - 5 * Min(age_days, 30))

Matched(title, excerpt) ==
    SelectSeq(KEYWORDS, LAMBDA kw : KwInText(kw, title \cup excerpt))

SeqToSet(s) == {s[i] : i \in DOMAIN s}

\* (kw_score + recency_score) * mult, times ScoreScale
RawScore(now_utc, title, excerpt, source, published_iso) ==
    LET matched == Matched(title, excerpt)
        kw_score == Min(60, 8 * Cardinality(SeqToSet(matched)))
        mult == SourceMult(source, 1)
    IN (kw_score * 6 + RecencyTimes6(now_utc, published_iso)) * mult

\* a bug: the upper clamp left out
score_relevance_unclamped(now_utc, title, excerpt, source, published_iso) ==
    [score |-> Max(0, RawScore(now_utc, title, excerpt, source, published_iso)),
     matched |-> Matched(title, excerpt)]

\* score_relevance: (score, matched); now_utc is datetime.now(timezone.utc)
score_relevance(now_utc, title, excerpt, source, published_iso) ==
    [score |-> Max(0, Min(100 * ScoreScale,
                          RawScore(now_utc, title, excerpt, source, published_iso))),
     matched |-> Matched(title, excerpt)]

(***************************************************************************)
(* summarize_articles.py _extract_json, build_weekly_draft.py extract_json *)
(*                                                                         *)
(* A model response is a sequence of symbols:                              *)
(*   "F"  the fence marker, three backticks                                *)
(*   "{" "}" ","                                                           *)
(*   " "  one whitespace character (space or newline)                      *)
(*   "a"  the text  "a":   (a key and its colon),  "b"  the text  "b":     *)
(*   "1"  the digit 1                                                      *)
(*   "x"  a letter of prose (or of the language tag after a fence)         *)
(* A parsed value is [t |-> "num", n |-> digits], [t |-> "obj", m |-> f]   *)
(* with f a function from keys to values, or (Python literals only)        *)
(* [t |-> "set", els |-> set of numbers].                                  *)
(***************************************************************************)
Ok(v) == [ok |-> TRUE, val |-> v]
Err(e) == [ok |-> FALSE, err |-> e]
Num(n) == [t |-> "num", n |-> n]
Obj(f) == [t |-> "obj", m |-> f]
EmptyMap == [k \in {} |-> 0]
Put(f, k, v) == [x \in (DOMAIN f) \cup {k} |-> IF x = k THEN v ELSE f[x]]

\* whitespace, as str.strip(), \s and the JSON grammar take it
IsWs(c) == c \in {" ", "\n", "\t"}

RECURSIVE SkipWs(_, _)
SkipWs(s, i) == IF i <= Len(s) /\ IsWs(s[i]) THEN SkipWs(s, i + 1) ELSE i

RECURSIVE SkipBack(_, _)
SkipBack(s, i) == IF i >= 1 /\ IsWs(s[i]) THEN SkipBack(s, i - 1) ELSE i

\* str.strip()
Strip(s) == SubSeq(s, SkipWs(s, 1), SkipBack(s, Len(s)))

RECURSIVE SkipLetters(_, _)
SkipLetters(s, i) == IF i <= Len(s) /\ s[i] = "x" THEN SkipLetters(s, i + 1) ELSE i

RECURSIVE SkipDigits(_, _)
SkipDigits(s, i) == IF i <= Len(s) /\ s[i] = "1" THEN SkipDigits(s, i + 1) ELSE i

\* re.sub(r"^```[a-zA-Z]*\s*", "", raw) then re.sub(r"\s*```$", "", raw).strip()
StripFences(raw) ==
    LET opened == SubSeq(raw, SkipWs(raw, SkipLetters(raw, 2)), Len(raw))
        closed == IF Len(opened) > 0 /\ opened[Len(opened)] = "F"
                  THEN SubSeq(opened, 1, SkipBack(opened, Len(opened) - 1))
                  ELSE opened
    IN Strip(closed)

\* A recursive-descent parse of one value at position i.  mode "json" is
\* json.loads; mode "py" is ast.literal_eval, which also takes a comma
\* before the closing brace and set displays of numbers.
\* Returns [ok, val, next].
PFail == [ok |-> FALSE, val |-> Num(0), next |-> 0]

RECURSIVE ParseValue(_, _, _), ParseItems(_, _, _, _, _)
ParseValue(s, i, mode) ==
    IF i > Len(s) THEN PFail
    ELSE IF s[i] = "1"
         THEN LET j == SkipDigits(s, i)
              IN [ok |-> TRUE, val |-> Num(j - i), next |-> j]
    ELSE IF s[i] = "{"
         THEN LET j == SkipWs(s, i + 1)
              IN IF j <= Len(s) /\ s[j] = "}"
                 THEN [ok |-> TRUE, val |-> Obj(EmptyMap), next |-> j + 1]
                 ELSE ParseItems(s, j, mode, "unknown", Obj(EmptyMap))
    ELSE PFail

\* the items of a display from position j on; kind is "unknown", "dict" or
\* "set", acc is the value built so far
ParseItems(s, j, mode, kind, acc) ==
    IF j > Len(s) THEN PFail
    ELSE
    LET isKey == s[j] \in {"a", "b"}
        v == IF isKey THEN ParseValue(s, SkipWs(s, j + 1), mode)
             ELSE ParseValue(s, j, mode)
        newKind == IF isKey THEN "dict" ELSE "set"
        acc2 == IF isKey THEN Obj(Put(acc.m, s[j], v.val))
                ELSE IF kind = "set" THEN [t |-> "set", els |-> acc.els \cup {v.val.n}]
                ELSE [t |-> "set", els |-> {v.val.n}]
    IN IF ~v.ok THEN PFail
       ELSE IF kind # "unknown" /\ kind # newKind THEN PFail
       ELSE IF ~isKey /\ (mode = "json" \/ v.val.t # "num") THEN PFail
       ELSE LET k == SkipWs(s, v.next)
            IN IF k > Len(s) THEN PFail
               ELSE IF s[k] = "}" THEN [ok |-> TRUE, val |-> acc2, next |-> k + 1]
               ELSE IF s[k] = ","
                    THEN LET n == SkipWs(s, k + 1)
                         IN IF n <= Len(s) /\ s[n] = "}"
                            THEN IF mode = "py"
                                 THEN [ok |-> TRUE, val |-> acc2, next |-> n + 1]
                                 ELSE PFail
                            ELSE ParseItems(s, n, mode, newKind, acc2)
               ELSE PFail

\* json.loads(s): one value with optional whitespace around it
JsonLoads(s) ==
    LET r == ParseValue(s, SkipWs(s, 1), "json")
    IN IF r.ok /\ SkipWs(s, r.next) = Len(s) + 1 THEN Ok(r.val)
       ELSE Err("JSONDecodeError")

\* ast.literal_eval(s): one literal; leading whitespace is an indentation
\* error, and anything after the literal is a syntax error or makes a tuple
\* (which extract_json rejects as not a dict)
LiteralEval(s) ==
    LET r == ParseValue(s, 1, "py")
    IN IF r.ok /\ SkipWs(s, r.next) = Len(s) + 1 THEN Ok(r.val)
       ELSE Err("literal_eval")

IndexOfFirst(s, c) ==
    IF \E i \in 1..Len(s) : s[i] = c
    THEN CHOOSE i \in 1..Len(s) : s[i] = c /\ \A j \in 1..(i - 1) : s[j] # c
    ELSE 0

IndexOfLast(s, c) ==
    IF \E i \in 1..Len(s) : s[i] = c
    THEN CHOOSE i \in 1..Len(s) : s[i] = c /\ \A j \in (i + 1)..Len(s) : s[j] # c
    ELSE 0

\* a bug: the non-greedy pattern \{.*?\}, up to the first closing brace
FirstObjectLazy(raw) ==
    LET i == IndexOfFirst(raw, "{")
        j == IF i = 0 THEN 0 ELSE i + IndexOfFirst(SubSeq(raw, i + 1, Len(raw)), "}")
    IN IF i = 0 \/ j = i THEN [found |-> FALSE, text |-> <<>>]
       ELSE [found |-> TRUE, text |-> SubSeq(raw, i, j)]

\* re.search(r"\{.*\}", raw, flags=re.DOTALL): from the first opening brace
\* to the last closing brace
FirstObject(raw) ==
    LET i == IndexOfFirst(raw, "{")
        j == IndexOfLast(raw, "}")
    IN IF i = 0 \/ j < i THEN [found |-> FALSE, text |-> <<>>]
       ELSE [found |-> TRUE, text |-> SubSeq(raw, i, j)]

\* re.sub(r",\s*([}\]])", r"\1", candidate), scanning from position i
RECURSIVE RepairFrom(_, _)
RepairFrom(s, i) ==
    IF i > Len(s) THEN <<>>
    ELSE IF s[i] = "," /\ SkipWs(s, i + 1) <= Len(s) /\ s[SkipWs(s, i + 1)] = "}"
         THEN <<"}">> \o RepairFrom(s, SkipWs(s, i + 1) + 1)
         ELSE <<s[i]>> \o RepairFrom(s, i + 1)

RepairTrailingCommas(candidate) == RepairFrom(candidate, 1)

\* summarize_articles.py _extract_json
SummarizerExtractJson(raw0) ==
    IF raw0 = <<>> THEN Err("ValueError: Empty model response")
    ELSE
    LET stripped == Strip(raw0)
        raw == IF Len(stripped) > 0 /\ stripped[1] = "F"
               THEN StripFences(stripped) ELSE stripped
        whole == JsonLoads(raw)
        m == FirstObject(raw)
    IN IF whole.ok THEN whole
       ELSE IF ~m.found THEN Err("ValueError: No JSON object found in response")
       ELSE JsonLoads(m.text)

\* build_weekly_draft.py extract_json
BuilderExtractJson(raw0) ==
    LET stripped == Strip(raw0)
        raw == IF Len(stripped) > 0 /\ stripped[1] = "F"
               THEN StripFences(stripped) ELSE stripped
        whole == JsonLoads(raw)
        m == FirstObject(raw)
        repaired == RepairTrailingCommas(m.text)
        lit == LiteralEval(repaired)
    IN IF stripped = <<>> THEN Err("ValueError: Empty model response")
       ELSE IF whole.ok THEN whole
       ELSE IF ~m.found THEN Err("ValueError: No JSON object found in response")
       ELSE IF JsonLoads(m.text).ok THEN JsonLoads(m.text)
       ELSE IF JsonLoads(repaired).ok THEN JsonLoads(repaired)
       ELSE IF ~lit.ok THEN lit
       ELSE IF lit.val.t # "obj" THEN Err("ValueError: Parsed object is not a dict")
       ELSE lit

(***************************************************************************)
(* extractor.py: the excerpt builder.  A text is a sequence of characters. *)
(***************************************************************************)
MAX_MATCH_TEXT_CHARS == 4000

LowerChar(c) == IF c = "K" THEN "k" ELSE c
\* str.lower()
Lower(s) == [i \in 1..Len(s) |-> LowerChar(s[i])]

\* `sub in s`
Contains(s, sub) ==
    \E i \in 1..(Len(s) - Len(sub) + 1) : SubSeq(s, i, i + Len(sub) - 1) = sub

\* the characters marked[i][1] of the positions with marked[i][2] true
Filtered(marked) ==
    LET kept == SelectSeq(marked, LAMBDA p : p[2])
    IN [i \in 1..Len(kept) |-> kept[i][1]]

\* _clean_whitespace: runs of spaces and tabs become one space, runs of
\* three or more newlines become two, then strip()
CleanWhitespace(text) ==
    LET IsSpTab(c) == c \in {" ", "\t"}
        one == Filtered([i \in 1..Len(text) |->
                   << IF IsSpTab(text[i]) THEN " " ELSE text[i],
                      ~(IsSpTab(text[i]) /\ i > 1 /\ IsSpTab(text[i - 1])) >>])
        two == Filtered([i \in 1..Len(one) |->
                   << one[i],
                      ~(one[i] = "\n" /\ i > 2 /\ one[i - 1] = "\n"
                        /\ one[i - 2] = "\n") >>])
    IN Strip(two)

\* sep.join(parts)
RECURSIVE Join(_, _)
Join(sep, parts) ==
    IF parts = <<>> THEN <<>>
    ELSE IF Len(parts) = 1 THEN parts[1]
    ELSE parts[1] \o sep \o Join(sep, Tail(parts))

\* s[:n]
Prefix(s, n) ==
    IF n >= 0 THEN SubSeq(s, 1, Min(n, Len(s)))
    ELSE SubSeq(s, 1, Max(0, Len(s) + n))

\* lines 74-79: the paragraphs after the first four that match a keyword,
\* appended until ten are selected
RECURSIVE SelectMatching(_, _, _, _)
SelectMatching(selected, rest, i, kw_lower) ==
    IF i > Len(rest) THEN selected
    ELSE LET pl == Lower(rest[i])
             hit == \E n \in 1..Len(kw_lower) : Contains(pl, kw_lower[n])
             sel2 == IF hit THEN Append(selected, rest[i]) ELSE selected
         IN IF Len(sel2) >= 10 THEN sel2
            ELSE SelectMatching(sel2, rest, i + 1, kw_lower)

TITLE_LABEL == <<"T", "I", "T", "L", "E", ":", " ">>
HEADINGS_LABEL == <<"H", "E", "A", "D", "I", "N", "G", "S", ":", "\n", "-", " ">>
HEADING_SEP == <<"\n", "-", " ">>
CONTENT_LABEL == <<"C", "O", "N", "T", "E", "N", "T", ":", "\n">>
PARA_SEP == <<"\n", "\n">>

\* lines 66-89: the excerpt before the cap
UncappedExcerpt(title, headings, paragraphs, keywords) ==
    LET kw_lower == [i \in 1..Len(keywords) |-> Lower(keywords[i])]
        first_n == Prefix(paragraphs, 4)
        selected == SelectMatching(first_n,
                                   SubSeq(paragraphs, 5, Len(paragraphs)), 1, kw_lower)
        p1 == IF title # <<>> THEN <<TITLE_LABEL \o title>> ELSE <<>>
        p2 == IF headings # <<>>
              THEN <<HEADINGS_LABEL \o Join(HEADING_SEP, Prefix(headings, 8))>>
              ELSE <<>>
        p3 == IF selected # <<>>
              THEN <<CONTENT_LABEL \o Join(PARA_SEP, selected)>>
              ELSE <<>>
    IN CleanWhitespace(Join(PARA_SEP, p1 \o p2 \o p3))

\* a bug: only the caller's budget applied
build_excerpt_budget_only(title, headings, paragraphs, keywords, max_chars) ==
    Prefix(UncappedExcerpt(title, headings, paragraphs, keywords), max_chars)

\* build_excerpt: excerpt[:min(max_chars, MAX_MATCH_TEXT_CHARS)]
build_excerpt(title, headings, paragraphs, keywords, max_chars) ==
    Prefix(UncappedExcerpt(title, headings, paragraphs, keywords),
           Min(max_chars, MAX_MATCH_TEXT_CHARS))

(***************************************************************************)
(* The pipeline: clock, stores and the three batch jobs                     *)
(***************************************************************************)
StartDay == Ymd2Ord(<<2024, 12, 29>>)

PipeInit ==
    /\ now = StartDay
    /\ seen = {}
    /\ rows = <<>>
    /\ queue = <<>>
    /\ ipc = [pc |-> "idle"]
    /\ spc = [pc |-> "idle"]
    /\ dpc = [p \in {1, 2} |-> [pc |-> "idle"]]

Running ==
    ipc.pc # "idle" \/ spc.pc # "idle" \/ \E p \in DOMAIN dpc : dpc[p].pc # "idle"

NowUtc == [day |-> now, sec |-> 0]

MaxDays == 1

\* the clock moves on between runs
Tick ==
    /\ ~Running
    /\ now < StartDay + MaxDays
    /\ now' = now + 1
    /\ UNCHANGED <<seen, rows, queue, ipc, spc, dpc, call, ret>>

(***************************************************************************)
(* ingest_sources.py, utils.py, notion_api.create_research_entry           *)
(***************************************************************************)
RECENCY_DAYS == 14
ENABLE_KEYWORD_FILTER == TRUE

\* The entries the feeds carry.  An entry is an article: its link ("" when
\* it has none), the title of its feed, the day it was published (NoDay when
\* it has no timestamp) and the keyword phrases in its title and summary.
NoDay == 0
FeedEntries ==
    { [link |-> "u1", feed |-> {"McKinsey"}, day |-> StartDay,
       title |-> {"governance"}],
      [link |-> "u2", feed |-> {"Harvard Business Review"}, day |-> StartDay - 8,
       title |-> {"platform engineering"}],
      [link |-> "u3", feed |-> {}, day |-> StartDay - 40, title |-> {"governance"}],
      [link |-> "u4", feed |-> {}, day |-> StartDay, title |-> {}],
      [link |-> "u5", feed |-> {}, day |-> NoDay, title |-> {"governance"}],
      [link |-> "", feed |-> {}, day |-> StartDay, title |-> {"governance"}] }

\* utils.parse_published
parse_published(entry) ==
    IF entry.day = NoDay THEN NoDate ELSE IsoInstant(entry.day, 0)

\* a bug: the comparison turned round
is_within_days_reversed(dt, days) ==
    IF dt.kind = "None" THEN FALSE ELSE dt.day <= now - days

\* utils.is_within_days: dt >= datetime.now(utc) - timedelta(days)
is_within_days(dt, days) ==
    IF dt.kind = "None" THEN FALSE
    ELSE (dt.day - (now - days)) * 86400 + dt.sec >= 0

\* ingest_sources.matches_keywords
matches_keywords(title, summary) ==
    \E i \in 1..Len(KEYWORDS) : KwInText(KEYWORDS[i], title \cup summary)

\* a bug: the lookup always misses
already_seen_never(conn, url) == FALSE

\* utils.already_seen: SELECT 1 FROM seen_urls WHERE url = ?
already_seen(conn, url) == url \in conn

\* utils.mark_seen: INSERT OR IGNORE INTO seen_urls
mark_seen(conn, url) == conn \cup {url}

\* notion_api.create_research_entry: the new row (the ghost fields conf and
\* writes record the confidence and the number of summariser updates)
NoScore == -1
NewRow(title, url, source, published) ==
    [title |-> title, url |-> url, source |-> source, pub |-> published,
     processed |-> FALSE, use |-> FALSE, score |-> NoScore, summary |-> {},
     conf |-> NoScore, writes |-> 0]

\* ingest() line 12: the run opens the dedupe database
IngestStart ==
    /\ ~Running
    /\ ipc' = [pc |-> "entries", last |-> "none", url |-> ""]
    /\ UNCHANGED <<now, seen, rows, queue, spc, dpc, call, ret>>

\* ingest() lines 24-60: one feed entry; url is the entry's link and last is
\* the counter the entry bumps
IngestEntry ==
    /\ ipc.pc = "entries"
    /\ \E entry \in FeedEntries :
          LET url == entry.link
              published_dt == parse_published(entry)
              Skip(why) == /\ ipc' = [ipc EXCEPT !.last = why, !.url = url]
                           /\ UNCHANGED <<seen, rows>>
          IN IF url = "" THEN Skip("no_link")
             ELSE IF already_seen(seen, url) THEN Skip("skipped_seen")
             ELSE IF ~is_within_days(published_dt, RECENCY_DAYS) THEN Skip("skipped_old")
             ELSE IF ENABLE_KEYWORD_FILTER /\ ~matches_keywords(entry.title, {})
                  THEN /\ seen' = mark_seen(seen, url)
                       /\ ipc' = [ipc EXCEPT !.last = "skipped_kw", !.url = url]
                       /\ UNCHANGED rows
             ELSE \E createOk \in BOOLEAN :
                     IF ~createOk THEN Skip("errors")
                     ELSE /\ rows' = Append(rows, NewRow(entry.title, url, entry.feed,
                                                         published_dt))
                          /\ seen' = mark_seen(seen, url)
                          /\ ipc' = [ipc EXCEPT !.last = "ingested", !.url = url]
    /\ UNCHANGED <<now, queue, spc, dpc, call, ret>>

\* ingest() line 62: the run ends; the dedupe database stays on disk
IngestEnd ==
    /\ ipc.pc = "entries"
    /\ ipc' = [pc |-> "idle"]
    /\ UNCHANGED <<now, seen, rows, queue, spc, dpc, call, ret>>

\* a row added to the Research Library by hand, without a URL
MaxManual == 1
ManualRow ==
    /\ ~Running
    /\ Cardinality({i \in DOMAIN rows : rows[i].url = ""}) < MaxManual
    /\ rows' = Append(rows, NewRow({}, "", {}, NoDate))
    /\ UNCHANGED <<now, seen, queue, ipc, spc, dpc, call, ret>>

(***************************************************************************)
(* summarize_articles.py run(), notion_api.query_unprocessed_research,     *)
(* notion_api.update_research_page                                         *)
(***************************************************************************)
BATCH_LIMIT == 15
MIN_EXCERPT_CHARS == 500
ScoreGate == 70
ConfidenceGate == 60

\* a bug: the filter on Processed left out
query_unprocessed_research_all(limit) ==
    Prefix(SelectSeq([i \in 1..Len(rows) |-> i], LAMBDA i : TRUE), limit)

\* query_unprocessed_research: ids of the rows with Processed == False
query_unprocessed_research(limit) ==
    Prefix(SelectSeq([i \in 1..Len(rows) |-> i], LAMBDA i : ~rows[i].processed), limit)

\* update_research_page: the row after the update
update_research_page(row, summary, usefulness_score, use_in_draft, processed, conf) ==
    [row EXCEPT !.summary = summary, !.score = usefulness_score,
                !.use = use_in_draft, !.processed = processed,
                !.conf = conf, !.writes = row.writes + 1]

\* a bug: the gate as a disjunction
use_in_draft_either(score, confidence) ==
    score >= ScoreGate * ScoreScale \/ confidence >= ConfidenceGate

\* line 204: score >= 70.0 and confidence >= 0.6 (confidence in hundredths)
use_in_draft_gate(score, confidence) ==
    score >= ScoreGate * ScoreScale /\ confidence >= ConfidenceGate

\* what fetching a page yields: an error, or the keyword phrases of its text
\* beyond the title's and the length of the excerpt built from it
FetchError == [kw |-> {}, len |-> -1]
FetchedPages ==
    { FetchError,
      [kw |-> {}, len |-> 120],
      [kw |-> {"decision rights", "decision velocity", "prioritization",
               "capital allocation"}, len |-> 2400] }

\* the responses of the generation service: an object, a fenced object, an
\* object with a trailing comma, prose
LlmResponses ==
    { <<"{", "a", "1", "}">>, <<"F", "x", " ", "{", "a", "1", "}", " ", "F">>,
      <<"{", "a", "1", ",", "}">>, <<"x", " ", "x">> }

\* the confidence of the response, in hundredths
Confidences == {59, 60}

\* run() lines 143-147
SumStart ==
    /\ ~Running
    /\ spc' = [pc |-> "loop", pages |-> query_unprocessed_research(BATCH_LIMIT), i |-> 1]
    /\ UNCHANGED <<now, seen, rows, queue, ipc, dpc, call, ret>>

\* a bug: the except branch marks the row processed
OnErrorMarkProcessed(row) == [row EXCEPT !.processed = TRUE]

\* run() lines 218-219: the except branch only prints; the row stays as it is
OnError(row) == row

\* a bug: the length test left out
TooShortNever(doc) == FALSE

\* run() line 182: len(excerpt) < MIN_EXCERPT_CHARS
TooShort(doc) == doc.len < MIN_EXCERPT_CHARS

\* run() lines 149-183: one candidate of the batch, up to the excerpt;
\* a candidate without URL is marked processed, a failed fetch or a short
\* excerpt raises into the except branch
SumHandle ==
    /\ spc.pc = "loop"
    /\ spc.i <= Len(spc.pages)
    /\ LET page_id == spc.pages[spc.i]
           page == rows[page_id]
           next == [spc EXCEPT !.i = spc.i + 1]
       IN IF page.url = ""
          THEN \E updateOk \in BOOLEAN :
                  IF updateOk
                  THEN /\ rows' = [rows EXCEPT ![page_id] =
                              update_research_page(page, {}, 0, FALSE, TRUE, NoScore)]
                       /\ spc' = next
                  ELSE \* the update raises outside the try: run() ends
                       /\ spc' = [pc |-> "idle"]
                       /\ UNCHANGED rows
          ELSE \E doc \in FetchedPages :
                  IF doc = FetchError \/ TooShort(doc)
                  THEN /\ rows' = [rows EXCEPT ![page_id] = OnError(page)]
                       /\ spc' = next
                  ELSE /\ UNCHANGED rows
                       /\ spc' = [pc |-> "generate", pages |-> spc.pages, i |-> spc.i,
                                  doc |-> doc]
    /\ UNCHANGED <<now, seen, queue, ipc, dpc, call, ret>>

\* run() lines 185-216: the local score, the one generation call
\* (llm_summarize_json), the gate and the update of the row
SumGenerate ==
    /\ spc.pc = "generate"
    /\ LET page_id == spc.pages[spc.i]
           page == rows[page_id]
           excerpt == page.title \cup spc.doc.kw
           sr == score_relevance(NowUtc, page.title, excerpt, page.source, page.pub)
       IN /\ spc' = [pc |-> "loop", pages |-> spc.pages, i |-> spc.i + 1]
          /\ \E resp \in LlmResponses :
                IF ~SummarizerExtractJson(resp).ok
                THEN rows' = [rows EXCEPT ![page_id] = OnError(page)]
                ELSE \E confidence \in Confidences, updateOk \in BOOLEAN :
                        IF ~updateOk
                        THEN rows' = [rows EXCEPT ![page_id] = OnError(page)]
                        ELSE rows' = [rows EXCEPT ![page_id] =
                                 update_research_page(
                                     page, excerpt, sr.score,
                                     use_in_draft_gate(sr.score, confidence),
                                     TRUE, confidence)]
    /\ UNCHANGED <<now, seen, queue, ipc, dpc, call, ret>>

\* run(): the loop is over
SumEnd ==
    /\ spc.pc = "loop"
    /\ spc.i > Len(spc.pages)
    /\ spc' = [pc |-> "idle"]
    /\ UNCHANGED <<now, seen, rows, queue, ipc, dpc, call, ret>>

(***************************************************************************)
(* build_weekly_draft.py main(), notion_api content-queue helpers          *)
(***************************************************************************)
LOOKBACK_DAYS == 14
MAX_SOURCES == 8

\* the "keywords" lists of TOPIC_ROTATION, in the table's order
TopicKeywords ==
    << <<"operating model", "governance", "portfolio", "prioritization",
         "decision rights", "alignment">>,
       <<"program management", "technical program management", "portfolio",
         "planning", "roadmap", "delivery", "execution systems", "AI">>,
       <<"platform", "platform engineering", "modernization", "architecture",
         "reliability", "observability", "internal developer platform">>,
       <<"automation", "agentic", "agents", "workflow", "orchestration", "ops",
         "productivity">>,
       <<"metrics", "signals", "decision velocity", "observability",
         "measurement", "outcomes", "risk", "leading indicators">> >>

\* kw.lower() in phrase.lower(), for a topic keyword and a phrase of KEYWORDS
TopicKeywordInside ==
    { <<"operating model", "operating model">>, <<"operating model", "AI operating model">>,
      <<"governance", "governance">>, <<"governance", "portfolio governance">>,
      <<"governance", "platform governance">>,
      <<"portfolio", "portfolio governance">>, <<"portfolio", "portfolio management">>,
      <<"prioritization", "prioritization">>, <<"decision rights", "decision rights">>,
      <<"alignment", "roadmap alignment">>,
      <<"program management", "program management">>,
      <<"program management", "technical program management">>,
      <<"technical program management", "technical program management">>,
      <<"roadmap", "roadmap alignment">>, <<"delivery", "delivery system">>,
      <<"execution systems", "execution systems">>,
      <<"AI", "AI transformation">>, <<"AI", "AI strategy">>, <<"AI", "AI operating model">>,
      <<"platform", "platform engineering">>, <<"platform", "internal developer platform">>,
      <<"platform", "platform governance">>,
      <<"platform engineering", "platform engineering">>,
      <<"modernization", "modernization">>, <<"architecture", "cloud architecture">>,
      <<"reliability", "reliability engineering">>, <<"observability", "observability">>,
      <<"internal developer platform", "internal developer platform">>,
      <<"automation", "automation">>, <<"automation", "workflow automation">>,
      <<"agentic", "agentic">>, <<"workflow", "workflow automation">>,
      <<"ops", "feedback loops">>, <<"metrics", "metrics">>,
      <<"decision velocity", "decision velocity">>, <<"measurement", "measurement">>,
      <<"risk", "risk management">>, <<"leading indicators", "leading indicators">> }

\* topic["keywords"] of the topic with this name
KeywordsOfTopic(topic) ==
    TopicKeywords[CHOOSE i \in DOMAIN TOPIC_ROTATION : TOPIC_ROTATION[i] = topic]

\* score_source_for_topic: the number of topic keywords found in the text
score_source_for_topic(title, summary, claims, topic_keywords) ==
    Cardinality({i \in DOMAIN topic_keywords :
                   \E m \in title \cup summary \cup claims :
                      <<topic_keywords[i], m>> \in TopicKeywordInside})

\* the orders of a set of row ids that descend by Usefulness Score
DescendingOrders(S) ==
    {f \in [1..Cardinality(S) -> S] :
        /\ \A i, j \in DOMAIN f : i # j => f[i] # f[j]
        /\ \A i, j \in DOMAIN f : i < j => rows[f[i]].score >= rows[f[j]].score}

\* a bug: the filter on Use in Draft left out
query_top_draft_sources_any(lookback_iso, max_sources) ==
    LET S == {i \in DOMAIN rows :
                /\ rows[i].processed
                /\ rows[i].pub.kind = "instant"
                /\ rows[i].pub.day >= FromIsoFormat(lookback_iso)}
    IN {Prefix(f, max_sources) : f \in DescendingOrders(S)}

\* query_top_draft_sources: the result lists the query may return (rows of
\* equal score come in either order)
query_top_draft_sources(lookback_iso, max_sources) ==
    LET S == {i \in DOMAIN rows :
                /\ rows[i].processed
                /\ rows[i].use
                /\ rows[i].pub.kind = "instant"
                /\ rows[i].pub.day >= FromIsoFormat(lookback_iso)}
    IN {Prefix(f, max_sources) : f \in DescendingOrders(S)}

\* a bug: a descending sort that turns equal keys round
SortDescTiesReversed(ids, key) ==
    LET Before(i) == {j \in DOMAIN ids :
                        \/ key[j] > key[i]
                        \/ key[j] = key[i] /\ j > i}
    IN [r \in DOMAIN ids |->
          ids[CHOOSE i \in DOMAIN ids : Cardinality(Before(i)) = r - 1]]

\* sort(key=..., reverse=True): descending by key, equal keys keep their
\* order; key[i] is the key of ids[i]
SortDescStable(ids, key) ==
    LET Before(i) == {j \in DOMAIN ids :
                        \/ key[j] > key[i]
                        \/ key[j] = key[i] /\ j < i}
    IN [r \in DOMAIN ids |->
          ids[CHOOSE i \in DOMAIN ids : Cardinality(Before(i)) = r - 1]]

\* main() lines 262-277: combined = us * 1.0 + affinity * 5.0, times ScoreScale
Combined(id, topic) ==
    rows[id].score
    + 5 * ScoreScale * score_source_for_topic(rows[id].title, rows[id].summary, {},
                                              KeywordsOfTopic(topic))

\* main() lines 279-280: the sources handed to llm_build_weekly_package
SelectSources(candidates, topic) ==
    Prefix(SortDescStable(candidates,
                          [i \in DOMAIN candidates |-> Combined(candidates[i], topic)]),
           MAX_SOURCES)

NoPage == 0

\* a bug: the lookup always misses
find_content_queue_page_for_week_none(week_of_iso) == NoPage

\* find_content_queue_page_for_week: the id of a page with this Week Of
find_content_queue_page_for_week(week_of_iso) ==
    IF \E i \in DOMAIN queue : queue[i].week_of = week_of_iso
    THEN CHOOSE i \in DOMAIN queue : queue[i].week_of = week_of_iso
    ELSE NoPage

\* create_content_queue_page: the new page (thesis: the Thesis Angle property
\* is set; sections: the number of sections appended)
create_content_queue_page(week_of_iso, topic) ==
    [week_of |-> week_of_iso, topic |-> topic, status |-> "Draft",
     thesis |-> FALSE, sections |-> 0]

\* the headings main() appends, in order
SECTIONS ==
    << "Weekly Topic", "Thesis Angle", "Long-form Article", "Companion Posts",
       "Comment Prompts", "Sources" >>

DraftIdle(p) == dpc' = [dpc EXCEPT ![p] = [pc |-> "idle"]]

\* main() lines 238-247: the week key and the duplicate check
DraftStart(p) ==
    /\ dpc[p].pc = "idle"
    /\ LET week_of == monday_week_of_iso(NowUtc)
           existing == find_content_queue_page_for_week(week_of)
       IN dpc' = [dpc EXCEPT ![p] =
                    IF existing # NoPage
                    THEN [pc |-> "skip_exists", week_of |-> week_of]
                    ELSE [pc |-> "topic", week_of |-> week_of]]
    /\ UNCHANGED <<now, seen, rows, queue, ipc, spc, call, ret>>

\* a bug: the test for an empty pool left out
PoolEmptyNever(candidates) == FALSE

\* main() line 257: if not candidates
PoolEmpty(candidates) == candidates = <<>>

\* main() lines 249-280: topic, candidates, re-ranking, selection
DraftSelect(p) ==
    /\ dpc[p].pc = "topic"
    /\ LET topic == pick_topic_for_week(dpc[p].week_of)
           lookback == IsoFormat(now - LOOKBACK_DAYS)
       IN \E candidates \in query_top_draft_sources(lookback, Max(20, MAX_SOURCES * 3)) :
             dpc' = [dpc EXCEPT ![p] =
                       IF PoolEmpty(candidates)
                       THEN [pc |-> "skip_empty", week_of |-> dpc[p].week_of]
                       ELSE [pc |-> "selected", week_of |-> dpc[p].week_of,
                             topic |-> topic, candidates |-> candidates,
                             selected |-> SelectSources(candidates, topic)]]
    /\ UNCHANGED <<now, seen, rows, queue, ipc, spc, call, ret>>

\* main() lines 282-290, llm_build_weekly_package: the package, or the run
\* ends with the exception (no JSON object, or a required key missing)
DraftGenerate(p) ==
    /\ dpc[p].pc = "selected"
    /\ \E resp \in LlmResponses :
          IF ~BuilderExtractJson(resp).ok THEN DraftIdle(p)
          ELSE \E complete \in BOOLEAN :
                  IF ~complete THEN DraftIdle(p)
                  ELSE dpc' = [dpc EXCEPT ![p] =
                                 [pc |-> "package", week_of |-> dpc[p].week_of,
                                  topic |-> dpc[p].topic]]
    /\ UNCHANGED <<now, seen, rows, queue, ipc, spc, call, ret>>

\* main() lines 292-298: create_content_queue_page
DraftCreatePage(p) ==
    /\ dpc[p].pc = "package"
    /\ \E createOk \in BOOLEAN :
          IF ~createOk THEN DraftIdle(p) /\ UNCHANGED queue
          ELSE /\ queue' = Append(queue, create_content_queue_page(dpc[p].week_of,
                                                                   dpc[p].topic))
               /\ dpc' = [dpc EXCEPT ![p] =
                            [pc |-> "created", week_of |-> dpc[p].week_of,
                             page_id |-> Len(queue) + 1]]
    /\ UNCHANGED <<now, seen, rows, ipc, spc, call, ret>>

\* main() line 300: set_content_queue_properties
DraftSetProps(p) ==
    /\ dpc[p].pc = "created"
    /\ \E updateOk \in BOOLEAN :
          IF ~updateOk THEN DraftIdle(p) /\ UNCHANGED queue
          ELSE /\ queue' = [queue EXCEPT ![dpc[p].page_id].thesis = TRUE]
               /\ dpc' = [dpc EXCEPT ![p].pc = "sections"]
    /\ UNCHANGED <<now, seen, rows, ipc, spc, call, ret>>

\* main() lines 302-307: the next append_section
DraftAppendSection(p) ==
    /\ dpc[p].pc = "sections"
    /\ queue[dpc[p].page_id].sections < Len(SECTIONS)
    /\ \E appendOk \in BOOLEAN :
          IF ~appendOk THEN DraftIdle(p) /\ UNCHANGED queue
          ELSE /\ queue' = [queue EXCEPT ![dpc[p].page_id].sections = @ + 1]
               /\ UNCHANGED dpc
    /\ UNCHANGED <<now, seen, rows, ipc, spc, call, ret>>

\* main() returns: after a skip, or after the last section
DraftExit(p) ==
    /\ \/ dpc[p].pc \in {"skip_exists", "skip_empty"}
       \/ dpc[p].pc = "sections" /\ queue[dpc[p].page_id].sections = Len(SECTIONS)
    /\ DraftIdle(p)
    /\ UNCHANGED <<now, seen, rows, queue, ipc, spc, call, ret>>

\* the scheduled draft job: runs one at a time
DraftRun == ~Running /\ DraftStart(1)

Init == PipeInit /\ call = NoCall /\ ret = NoRet

Next ==
    \/ Tick
    \/ IngestStart \/ IngestEntry \/ IngestEnd
    \/ ManualRow
    \/ SumStart \/ SumHandle \/ SumGenerate \/ SumEnd
    \/ DraftRun \/ DraftSelect(1) \/ DraftGenerate(1) \/ DraftCreatePage(1)
    \/ DraftSetProps(1) \/ DraftAppendSection(1) \/ DraftExit(1)

Spec == Init /\ [][Next]_vars

\* ingestion and summarisation alone: the draft builder only reads the
\* Research Library and never touches the dedupe set
NextResearch ==
    \/ Tick
    \/ IngestStart \/ IngestEntry \/ IngestEnd
    \/ ManualRow
    \/ SumStart \/ SumHandle \/ SumGenerate \/ SumEnd

SpecResearch == Init /\ [][NextResearch]_vars

(***************************************************************************)
(* Properties of the pipeline (Spec)                                        *)
(***************************************************************************)
OnePagePerWeek ==
    \A i, j \in DOMAIN queue : queue[i].week_of = queue[j].week_of => i = j

SkipCreatesNothing ==
    \A p \in DOMAIN dpc : dpc[p].pc = "skip_exists" => queue' = queue

\* C1: with draft-builder runs executed one at a time, the Content Queue never
\* holds two pages with the same week key, and a run that found a page for
\* the current week key leaves the queue as it is.
C1_OnePagePerWeek == []OnePagePerWeek /\ [][SkipCreatesNothing]_vars

\* pages for two weeks exist and a further run in the second week is skipped
C1_Witness ==
    /\ Len(queue) = 2
    /\ dpc[1].pc = "skip_exists"
    /\ \E i \in DOMAIN queue : queue[i].week_of = dpc[1].week_of

GateHolds ==
    \A i \in DOMAIN rows :
       rows[i].use <=> /\ rows[i].writes > 0
                       /\ rows[i].score >= 70 * ScoreScale
                       /\ rows[i].conf >= 60

OnlySummarizerSetsUse ==
    \A i \in DOMAIN rows' :
       (rows'[i].use /\ (i \notin DOMAIN rows \/ ~rows[i].use))
          => /\ spc.pc \in {"loop", "generate"}
             /\ spc.i <= Len(spc.pages)
             /\ spc.pages[spc.i] = i

\* C2: a row has use_in_draft true exactly when the Summarizer wrote it with
\* a relevance score >= 70.0 and a confidence >= 0.6, and only the
\* Summarizer's write of a candidate ever turns use_in_draft to true.
C2_Gate == []GateHolds /\ [][OnlySummarizerSetsUse]_vars

\* the boundary corner (70.0 and 0.6: true) beside a row that passes the score
\* but not the confidence, and one written below the score
C2_Witness ==
    \E i, j \in DOMAIN rows :
       /\ rows[i].score = 70 * ScoreScale /\ rows[i].conf = 60 /\ rows[i].use
       /\ rows[j].score >= 70 * ScoreScale /\ rows[j].conf = 59 /\ ~rows[j].use
       /\ rows[j].writes = 1

WrittenOnce ==
    \A i \in DOMAIN rows :
       rows[i].writes <= 1 /\ (rows[i].writes = 1 <=> rows[i].processed)

ProcessedFrozen ==
    \A i \in DOMAIN rows : rows[i].processed => rows'[i] = rows[i]

SelectsUnprocessed ==
    (spc.pc = "idle" /\ spc'.pc = "loop")
       => \A k \in DOMAIN spc'.pages : ~rows[spc'.pages[k]].processed

\* C3: the Summarizer updates a row at most once, the update sets
\* processed=true, and a processed row is neither selected by a later run nor
\* written again.
C3_ProcessedOnce == []WrittenOnce /\ [][ProcessedFrozen /\ SelectsUnprocessed]_vars

\* a later run works on a batch that leaves out a row an earlier run processed
C3_Witness ==
    /\ spc.pc = "loop"
    /\ Len(spc.pages) > 0
    /\ \E i \in DOMAIN rows :
          /\ rows[i].processed /\ rows[i].writes = 1
          /\ \A k \in DOMAIN spc.pages : spc.pages[k] # i

SeenGrows == seen \subseteq seen'

NoRowForSeen ==
    \A i \in DOMAIN rows' : i \notin DOMAIN rows => rows'[i].url \notin seen

\* C4: the dedupe set only grows, over all runs, and no step creates a
\* research row for a URL that is in the set.
C4_DedupeMonotone == [][SeenGrows /\ NoRowForSeen]_vars

\* a run on a later day meets a URL marked by an earlier run and skips it
C4_Witness ==
    /\ ipc.pc = "entries"
    /\ ipc.last = "skipped_seen"
    /\ now > StartDay
    /\ "u1" \in seen
    /\ Cardinality({i \in DOMAIN rows : rows[i].url = "u1"}) = 1
    /\ "u4" \in seen
    /\ \A i \in DOMAIN rows : rows[i].url # "u4"

\* C5: the sources the draft builder hands to the Package Builder are among
\* the rows the draft-source query returned, and each of them is processed
\* and has use_in_draft set in the store when it is selected.
C5_SelectedDraftReady ==
    \A p \in DOMAIN dpc :
       dpc[p].pc = "selected"
          => /\ SeqToSet(dpc[p].selected) \subseteq SeqToSet(dpc[p].candidates)
             /\ \A id \in SeqToSet(dpc[p].selected) :
                   rows[id].processed /\ rows[id].use

\* two sources selected, re-ranked against the query's order
C5_Witness ==
    /\ dpc[1].pc = "selected"
    /\ Len(dpc[1].selected) = 2
    /\ dpc[1].selected # dpc[1].candidates
    /\ \E i \in DOMAIN rows : ~rows[i].use

\* C12: in a summarization batch no failure while handling a candidate ends
\* the run: as long as later candidates remain, the run goes on to them.
C12_BatchNeverAborts ==
    [][(spc.pc # "idle" /\ spc.i < Len(spc.pages)) => spc'.pc # "idle"]_vars

Handled == spc.pages[spc.i]

HandlingStep == spc.pc # "idle" /\ spc.i <= Len(spc.pages) /\ spc' # spc

FailureChangesNothing ==
    (HandlingStep /\ rows'[Handled].writes = rows[Handled].writes)
       => (rows'[Handled] = rows[Handled] /\ ~rows'[Handled].processed)

UnprocessedReturned ==
    (spc.pc = "idle" /\ spc'.pc = "loop")
       => \A i \in DOMAIN rows :
             (~rows[i].processed /\ Len(rows) <= 15)
                => \E k \in DOMAIN spc'.pages : spc'.pages[k] = i

GenerationInput ==
    spc.pc = "generate"
       => /\ rows[Handled].url # ""
          /\ spc.doc # FetchError
          /\ spc.doc.len >= 500
          /\ \A j, k \in DOMAIN spc.pages : spc.pages[j] = spc.pages[k] => j = k

GenerationOnce ==
    /\ spc.pc = "generate" => (spc'.pc = "loop" /\ spc'.i = spc.i + 1)
    /\ (spc'.pc = "generate" /\ spc.pc # "generate")
          => (spc.pc = "loop" /\ spc'.i = spc.i /\ spc'.pages = spc.pages)

\* C14: the generation call is made only for a candidate with a fetched page
\* and an excerpt of at least 500 characters, and after the call the run
\* moves on to the next candidate, so no candidate gets a second call.
C14_GenerationCalls == []GenerationInput /\ [][GenerationOnce]_vars

\* the run is about to make the call for the second candidate of a batch
\* whose first candidate was left unprocessed
C14_Witness ==
    /\ spc.pc = "generate"
    /\ spc.i = 2
    /\ ~rows[spc.pages[1]].processed
    /\ rows[spc.pages[1]].url # ""

EntryOf(url) == CHOOSE e \in FeedEntries : e.link = url

InWindow(e) == e.day # NoDay /\ now - e.day <= 14

HasRowFor(url) == \E i \in DOMAIN rows : rows[i].url = url

RecencyDecides ==
    (ipc.pc = "entries" /\ ipc'.pc = "entries" /\ ipc'.url # "")
       => LET e == EntryOf(ipc'.url)
          IN (e.link \notin seen /\ e.title # {})
                => /\ ipc'.last \in {"ingested", "errors"} <=> InWindow(e)
                   /\ ipc'.last = "skipped_old" <=> ~InWindow(e)
                   /\ ipc'.last = "ingested"
                         <=> rows' = Append(rows, NewRow(e.title, e.link, e.feed,
                                                         IsoInstant(e.day, 0)))
                   /\ ipc'.last # "ingested" => rows' = rows

\* C15: an unseen feed entry that matches the keyword filter is accepted (the
\* create call is made and, unless the call itself fails and is counted as an
\* error, a row is added) exactly when its timestamp is no more than 14 days
\* old; when it is older or has no timestamp it is counted as stale and no
\* row is added.
C15_RecencyWindow == [][RecencyDecides]_vars

\* the entries aged 0 and 8 days have rows, and the entry without a timestamp
\* and the one aged 40 days, handled last, have none
C15_Witness ==
    /\ now = StartDay
    /\ HasRowFor("u1") /\ HasRowFor("u2")
    /\ ~HasRowFor("u3") /\ ~HasRowFor("u5")
    /\ ipc.pc = "entries" /\ ipc.url = "u3" /\ ipc.last = "skipped_old"

\* the transitions of a run: NotStarted is idle, WeekChecked is topic (or
\* skip_exists when the check found a page), CandidatesFetched is selected (or
\* skip_empty), PackageGenerated is package, Persisted is created and
\* sections; a run that fails or returns becomes idle
DraftTransitions ==
    { <<"idle", "topic">>, <<"idle", "skip_exists">>,
      <<"topic", "selected">>, <<"topic", "skip_empty">>,
      <<"selected", "package">>, <<"package", "created">>,
      <<"created", "sections">>, <<"sections", "sections">>,
      <<"skip_exists", "idle">>, <<"skip_empty", "idle">>,
      <<"selected", "idle">>, <<"package", "idle">>,
      <<"created", "idle">>, <<"sections", "idle">> }

PagesOfWeek(week_of) == {i \in DOMAIN queue : queue[i].week_of = week_of}

DraftOrder ==
    /\ dpc'[1] # dpc[1] => <<dpc[1].pc, dpc'[1].pc>> \in DraftTransitions
    /\ Len(queue') > Len(queue)
          => (dpc[1].pc = "package" /\ dpc'[1].pc = "created")

GenerationAfterChecks ==
    dpc[1].pc = "selected"
       => /\ PagesOfWeek(dpc[1].week_of) = {}
          /\ dpc[1].candidates # <<>>
          /\ dpc[1].selected # <<>>

\* C16: a draft run moves only along idle -> topic -> (skip_exists | selected
\* -> (skip_empty | package -> created -> sections)), or ends; the generation
\* call is made only when the week has no page and the candidate pool is not
\* empty, and a page is added to the Content Queue only by the step that
\* follows a generated and recovered package.
C16_DraftOrder == []GenerationAfterChecks /\ [][DraftOrder]_vars

\* a run went all the way: its page has the properties and the six sections
C16_Witness ==
    /\ dpc[1].pc = "sections"
    /\ queue[dpc[1].page_id].thesis
    /\ queue[dpc[1].page_id].sections = 6
    /\ queue[dpc[1].page_id].week_of = dpc[1].week_of

Skipped == dpc[1].pc \in {"skip_exists", "skip_empty"}

SkipFrame ==
    /\ (dpc'[1] # dpc[1] /\ dpc[1].pc \in {"idle", "topic", "skip_exists", "skip_empty"})
          => (queue' = queue /\ rows' = rows /\ seen' = seen)
    /\ (Skipped' /\ ~Skipped) => dpc[1].pc \in {"idle", "topic"}
    /\ (Skipped /\ dpc'[1] # dpc[1]) => dpc'[1].pc = "idle"
    /\ (dpc[1].pc = "idle" /\ dpc'[1].pc # "idle")
          => (dpc'[1].pc = "skip_exists" <=> PagesOfWeek(dpc'[1].week_of) # {})

\* C17: a draft run is skipped when a page exists for the week key or the
\* candidate query returns nothing; such a run only reads: from its start to
\* its return the Content Queue, the Research Library and the dedupe set stay
\* as they are, it never reaches the generation call, and it returns normally.
C17_SkipChangesNothing == [][SkipFrame]_vars

\* a run skipped for want of candidates: the Research Library has a
\* summarised row, but it is not marked for use in a draft
C17_Witness ==
    /\ dpc[1].pc = "skip_empty"
    /\ queue = <<>>
    /\ \E i \in DOMAIN rows : rows[i].processed /\ ~rows[i].use /\ rows[i].url # ""

Complete(page) == page.thesis /\ page.sections = Len(SECTIONS)

\* C21: no partially built package stays in the Content Queue: whenever no
\* draft run is at work, also after a run that ended with a failed property
\* update or section append and after later runs of the same week, every
\* page of the queue has its properties and all six sections.
C21_NoPartialPage ==
    dpc[1].pc = "idle" => \A i \in DOMAIN queue : Complete(queue[i])

\* what the code does with a page that a failed run left behind: no later
\* step touches it (a page changes only under the run that created it), and
\* a later run of the week finds it and skips
PartialPageKept ==
    \A i \in DOMAIN queue :
       (dpc[1].pc \in {"idle", "topic", "selected", "package", "skip_exists",
                       "skip_empty"}
        \/ dpc[1].page_id # i)
          => queue'[i] = queue[i]

PartialPageStays == [][PartialPageKept]_vars

\* a run triggered again in the week of a page without sections is skipped
RetriggerSkipsPartial ==
    /\ dpc[1].pc = "skip_exists"
    /\ \E i \in DOMAIN queue :
          queue[i].week_of = dpc[1].week_of /\ queue[i].sections = 0

(***************************************************************************)
(* SpecDate: monday_week_of_iso and pick_topic_for_week as pure functions  *)
(***************************************************************************)
Days == Ymd2Ord(<<FirstYear, 1, 1>>)..Ymd2Ord(<<LastYear, 12, 31>>)
DayTimes == {0, 86399}
Mondays == {n \in Days : Weekday(n) = 0 /\ n + 35 \in Days}

WeekCalls ==
    {[fn |-> "monday_week_of_iso",
      d1 |-> [day |-> t[1], sec |-> t[3]],
      d2 |-> [day |-> t[1] + t[2], sec |-> t[4]]] :
        t \in {u \in Days \X (-7..7) \X DayTimes \X DayTimes : u[1] + u[2] \in Days}}

TopicCalls == {[fn |-> "pick_topic_for_week", monday |-> n] : n \in Mondays}

InitDate ==
    /\ PipeInit
    /\ call \in WeekCalls \cup TopicCalls
    /\ ret = NoRet

\* main() line 239: the week key of two instants
ApplyWeekKey ==
    /\ call.fn = "monday_week_of_iso"
    /\ ret = NoRet
    /\ ret' = [kind |-> "keys",
               k1 |-> monday_week_of_iso(call.d1),
               k2 |-> monday_week_of_iso(call.d2)]
    /\ UNCHANGED <<pipeVars, call>>

\* main() lines 239, 250 run in six consecutive weeks: the topic of each
ApplyTopic ==
    /\ call.fn = "pick_topic_for_week"
    /\ ret = NoRet
    /\ ret' = [kind |-> "topics",
               t |-> [i \in 1..6 |->
                        pick_topic_for_week(
                            monday_week_of_iso(
                                [day |-> call.monday + 7 * (i - 1), sec |-> 0]))]]
    /\ UNCHANGED <<pipeVars, call>>

NextDate == ApplyWeekKey \/ ApplyTopic

SpecDate == InitDate /\ [][NextDate]_vars

(***************************************************************************)
(* C8, C9                                                                  *)
(***************************************************************************)
IsoWeekOf(inst) == <<IsoCalendar(inst.day)[1], IsoCalendar(inst.day)[2]>>

\* C9: two instants of the same ISO week (Monday 00:00 to Sunday 23:59) get
\* the same week key, instants of different ISO weeks get different keys,
\* and the key is the date of the Monday of the instant's ISO week.
C9_WeekKey ==
    ret.kind = "keys" =>
        LET c1 == IsoCalendar(call.d1.day)
            c2 == IsoCalendar(call.d2.day)
        IN /\ (c1[1] = c2[1] /\ c1[2] = c2[2]) <=> (ret.k1 = ret.k2)
           /\ IsoCalendar(FromIsoFormat(ret.k1)) = <<c1[1], c1[2], 1>>
           /\ IsoCalendar(FromIsoFormat(ret.k2)) = <<c2[1], c2[2], 1>>

\* two different days of one ISO week that lie in different calendar years
C9_Witness ==
    /\ ret.kind = "keys"
    /\ call.d1.day # call.d2.day
    /\ Ord2Ymd(call.d1.day)[1] # Ord2Ymd(call.d2.day)[1]
    /\ call.d1.sec = 0 /\ call.d2.sec = 86399
    /\ IsoWeekOf(call.d1) = IsoWeekOf(call.d2)
    /\ ret.k1 = ret.k2

Distinct5(t) == \A i, j \in 1..5 : i # j => t[i] # t[j]

SameIsoYear(monday) ==
    IsoCalendar(monday)[1] = IsoCalendar(monday + 35)[1]

\* C8 (as claimed): for every six consecutive weeks, year boundaries
\* included, the first and the sixth week have the same topic and the first
\* five weeks have five different topics.
C8_Period5_AnyWeeks ==
    ret.kind = "topics" => (ret.t[1] = ret.t[6] /\ Distinct5(ret.t))

\* C8 (amended): the same, for six consecutive weeks of one ISO year.
C8_Period5_WithinIsoYear ==
    (ret.kind = "topics" /\ SameIsoYear(call.monday)) =>
        (ret.t[1] = ret.t[6] /\ Distinct5(ret.t))

C8_Witness ==
    /\ ret.kind = "topics"
    /\ SameIsoYear(call.monday)
    /\ IsoCalendar(call.monday)[2] = 47
    /\ ret.t[1] = TOPIC_ROTATION[3]
    /\ ret.t[6] = TOPIC_ROTATION[3]

(***************************************************************************)
(* SpecScore: score_relevance as a pure function                           *)
(***************************************************************************)
AgeSpan == 35

KeywordPrefix(n) == {KEYWORDS[i] : i \in 1..n}
ScoreTexts ==
    {KeywordPrefix(n) : n \in 0..Len(KEYWORDS)}
    \cup {{p[2]} : p \in KeywordInside}
ScoreSources ==
    { {}, {"Harvard Business Review"}, {"McKinsey"}, {"InfoQ"}, {"CNCF"},
      {"AWS"}, {"Google", "McKinsey"} }
ScoreNow == [day |-> StartDay, sec |-> 43200]
ScorePublished ==
    {NoDate, EmptyDate, BadDate}
    \cup {IsoInstant(StartDay + d, s) :
              d \in (-AgeSpan)..AgeSpan, s \in {43200, 43201}}

ScoreCalls ==
    {[fn |-> "score_relevance", now_utc |-> ScoreNow,
      title |-> t, excerpt |-> {}, source |-> s, published_iso |-> p] :
        t \in ScoreTexts, s \in ScoreSources, p \in ScorePublished}
    \cup
    {[fn |-> "score_relevance", now_utc |-> ScoreNow,
      title |-> {KEYWORDS[1]}, excerpt |-> e, source |-> {}, published_iso |-> p] :
        e \in ScoreTexts, p \in {NoDate, BadDate, IsoInstant(StartDay, 43200)}}

InitScore ==
    /\ PipeInit
    /\ call \in ScoreCalls
    /\ ret = NoRet

ApplyScore ==
    /\ call.fn = "score_relevance"
    /\ ret = NoRet
    /\ ret' = [kind |-> "score",
               val |-> score_relevance(call.now_utc, call.title, call.excerpt,
                                       call.source, call.published_iso)]
    /\ UNCHANGED <<pipeVars, call>>

NextScore == ApplyScore

SpecScore == InitScore /\ [][NextScore]_vars

\* C6: whatever the title, excerpt, source name and publication timestamp
\* (present, absent, unparseable, older than 30 days, in the future), the
\* score returned by score_relevance lies in [0, 100].
C6_ScoreBounds ==
    ret.kind = "score" => (0 <= ret.val.score /\ ret.val.score <= 100 * ScoreScale)

\* a timestamp in the future and a weighted source: the raw value is above
\* 100 and the result is exactly 100
C6_Witness ==
    /\ ret.kind = "score"
    /\ call.published_iso.kind = "instant"
    /\ AgeDays(call.now_utc, call.published_iso) < 0
    /\ RawScore(call.now_utc, call.title, call.excerpt, call.source,
                call.published_iso) > 100 * ScoreScale
    /\ ret.val.score = 100 * ScoreScale

\* the score the claim gives to a call whose recency component is r:
\* (kw_score + r) * mult, clamped, times ScoreScale
ScoreWithRecency(title, excerpt, source, r) ==
    Max(0, Min(100 * ScoreScale,
               (Min(60, 8 * Cardinality(SeqToSet(Matched(title, excerpt)))) + r)
                  * 6 * SourceMult(source, 1)))

\* C18: when published_iso is absent (None) the recency component is the flat
\* fallback 8, so that without keyword hits the score is 8 times the source
\* multiplier; and the call returns a score, it does not raise.
C18_AbsentFallback ==
    (ret # NoRet /\ call.published_iso.kind = "None")
       => /\ ret.kind = "score"
          /\ ret.val.score = ScoreWithRecency(call.title, call.excerpt, call.source, 8)

\* what the function does: recency 0 for None and for the empty string, the
\* fallback 8 only for a text that does not parse
AbsentScoresAsCoded ==
    ret.kind = "score"
       => /\ call.published_iso.kind \in {"None", "empty"}
             => ret.val.score = ScoreWithRecency(call.title, call.excerpt, call.source, 0)
          /\ call.published_iso.kind = "unparseable"
             => ret.val.score = ScoreWithRecency(call.title, call.excerpt, call.source, 8)

(***************************************************************************)
(* SpecJson: the two structured-output recoveries applied to one response  *)
(***************************************************************************)
MaxRawLen == 4

JsonAlphabet == {"F", "{", "}", ",", " ", "a", "b", "1", "x"}

RECURSIVE Repeat(_, _)
Repeat(c, n) == IF n = 0 THEN <<>> ELSE <<c>> \o Repeat(c, n - 1)

\* the JSON text of a value; sp is the whitespace put between its tokens
RECURSIVE Render(_, _)
Render(v, sp) ==
    IF v.t = "num" THEN Repeat("1", v.n)
    ELSE LET ka == IF "a" \in DOMAIN v.m THEN <<"a">> \o sp \o Render(v.m["a"], sp) ELSE <<>>
             kb == IF "b" \in DOMAIN v.m THEN <<"b">> \o sp \o Render(v.m["b"], sp) ELSE <<>>
             sep == IF ka # <<>> /\ kb # <<>> THEN <<",">> \o sp ELSE <<>>
         IN <<"{">> \o sp \o ka \o sep \o kb \o sp \o <<"}">>

A1 == Obj(Put(EmptyMap, "a", Num(1)))
JsonObjects ==
    { Obj(EmptyMap),
      A1,
      Obj(Put(EmptyMap, "b", Num(2))),
      Obj(Put(Put(EmptyMap, "a", Num(1)), "b", Num(2))),
      Obj(Put(EmptyMap, "a", A1)),
      Obj(Put(Put(EmptyMap, "a", Obj(EmptyMap)), "b", A1)) }

Spacings == {<<>>, <<" ">>}

\* the response forms of the claim, built around the text of an object
Formed(form, v, sp) ==
    LET body == Render(v, sp)
    IN CASE form = "bare" -> body
         [] form = "fenced" -> <<"F", "x", "x", " ">> \o body \o <<" ", "F">>
         [] form = "fenced_untagged" -> <<"F", " ">> \o body \o <<" ", "F">>
         [] form = "wrapped" -> <<"x", "x", " ">> \o body \o <<" ", "x">>
         [] form = "trailing_comma" ->
               SubSeq(body, 1, Len(body) - 1) \o <<",">> \o sp \o <<"}">>

JsonForms == {"bare", "fenced", "fenced_untagged", "wrapped", "trailing_comma"}

FormedCalls ==
    {[fn |-> "extract_json", form |-> f, obj |-> v, raw |-> Formed(f, v, sp)] :
        f \in JsonForms, v \in JsonObjects, sp \in Spacings}

RECURSIVE StringsOfLen(_)
StringsOfLen(n) ==
    IF n = 0 THEN {<<>>}
    ELSE {Append(s, c) : s \in StringsOfLen(n - 1), c \in JsonAlphabet}

RawCalls ==
    {[fn |-> "extract_json", form |-> "verbatim", obj |-> Num(0), raw |-> s] :
        s \in UNION {StringsOfLen(n) : n \in 0..MaxRawLen}}

InitJson ==
    /\ PipeInit
    /\ call \in FormedCalls \cup RawCalls
    /\ ret = NoRet

\* llm_summarize_json line 136 and llm_build_weekly_package line 221 on the
\* same response text
ApplyExtractJson ==
    /\ call.fn = "extract_json"
    /\ ret = NoRet
    /\ ret' = [kind |-> "json",
               summarizer |-> SummarizerExtractJson(call.raw),
               builder |-> BuilderExtractJson(call.raw)]
    /\ UNCHANGED <<pipeVars, call>>

NextJson == ApplyExtractJson

SpecJson == InitJson /\ [][NextJson]_vars

\* the response trimmed, and without its fence when it starts with one
Unfenced(raw) ==
    LET stripped == Strip(raw)
    IN IF Len(stripped) > 0 /\ stripped[1] = "F" THEN StripFences(stripped)
       ELSE stripped

HasBraceSpan(raw) ==
    \E i, j \in 1..Len(raw) : i < j /\ raw[i] = "{" /\ raw[j] = "}"

\* the response holds a JSON object somewhere in its text
ContainsObject(raw) ==
    \E i, j \in 1..Len(raw) :
        /\ i < j /\ raw[i] = "{" /\ raw[j] = "}"
        /\ JsonLoads(SubSeq(raw, i, j)).ok

\* C7: both recoveries return the object for the bare, fenced,
\* prefix/suffix and trailing-comma forms of a response, and both fail on a
\* response that contains no object.
C7_BothRecoverAllForms ==
    ret.kind = "json" =>
        /\ call.form \in JsonForms =>
               (ret.summarizer = Ok(call.obj) /\ ret.builder = Ok(call.obj))
        /\ ~ContainsObject(call.raw) => (~ret.summarizer.ok /\ ~ret.builder.ok)

\* What the two recoveries do: extract_json returns the object for all four
\* forms; _extract_json returns it for the bare, fenced and prefix/suffix
\* forms and fails with a JSON decode error on the trailing-comma form; on a
\* response that has no "{" ... "}" span and, once trimmed and unfenced, is
\* not valid JSON as a whole, both fail with a ValueError.
RecoveryAsCoded ==
    ret.kind = "json" =>
        /\ call.form \in JsonForms => ret.builder = Ok(call.obj)
        /\ call.form \in JsonForms \ {"trailing_comma"} =>
               ret.summarizer = Ok(call.obj)
        /\ (call.form = "trailing_comma" /\ DOMAIN call.obj.m # {}) =>
               ret.summarizer = Err("JSONDecodeError")
        /\ (~HasBraceSpan(call.raw) /\ ~JsonLoads(Unfenced(call.raw)).ok) =>
               /\ ~ret.summarizer.ok /\ ~ret.builder.ok
               /\ ret.builder.err \in {"ValueError: Empty model response",
                                       "ValueError: No JSON object found in response"}
               /\ ret.summarizer.err \in {"ValueError: Empty model response",
                                          "ValueError: No JSON object found in response"}

\* a nested object with a trailing comma, recovered by the builder only
TrailingCommaRecovered ==
    /\ ret.kind = "json"
    /\ call.form = "trailing_comma"
    /\ call.obj = Obj(Put(EmptyMap, "a", A1))
    /\ ret.builder = Ok(call.obj)
    /\ ~ret.summarizer.ok

(***************************************************************************)
(* SpecExcerpt: build_excerpt as a pure function                           *)
(***************************************************************************)
LongParaLen == 1100
MaxTail == 7

ExTitles == {<<>>, <<"a", " ", " ", "K">>}
ExHeading == <<"a", "\t", "a">>
ExHeadings == {<<>>, <<ExHeading>>, [i \in 1..9 |-> ExHeading]}
ExParas ==
    { <<"a", "a">>,
      <<"a", "K", "a">>,
      <<" ", "a", " ", "\t", "a", "\n", "\n", "\n", "\n", "k", " ">>,
      [i \in 1..LongParaLen |-> "a"] }
ExParagraphs ==
    {Repeat(p, n) \o Repeat(q, m) :
        p \in ExParas, q \in {<<"a", "a">>, <<"a", "K", "a">>},
        n \in {0, 1, 4}, m \in {0, MaxTail}}
ExKeywords == {<<>>, <<<<"K">>, <<"a", "a", "a">>>>}
ExBudgets == {-1, 0, 10, MAX_MATCH_TEXT_CHARS - 1, MAX_MATCH_TEXT_CHARS, 12000}

ExcerptCalls ==
    {[fn |-> "build_excerpt", title |-> t, headings |-> h, paragraphs |-> p,
      keywords |-> k, max_chars |-> c] :
        t \in ExTitles, h \in ExHeadings, p \in ExParagraphs,
        k \in ExKeywords, c \in ExBudgets}

InitExcerpt ==
    /\ PipeInit
    /\ call \in ExcerptCalls
    /\ ret = NoRet

ApplyBuildExcerpt ==
    /\ call.fn = "build_excerpt"
    /\ ret = NoRet
    /\ ret' = [kind |-> "excerpt",
               text |-> build_excerpt(call.title, call.headings, call.paragraphs,
                                      call.keywords, call.max_chars)]
    /\ UNCHANGED <<pipeVars, call>>

NextExcerpt == ApplyBuildExcerpt

SpecExcerpt == InitExcerpt /\ [][NextExcerpt]_vars

\* C10 (as claimed): for every max_chars the excerpt is never longer than
\* min(max_chars, MAX_MATCH_TEXT_CHARS).
C10_AnyBudget ==
    ret.kind = "excerpt" =>
        Len(ret.text) <= Min(call.max_chars, MAX_MATCH_TEXT_CHARS)

\* C10 (amended): for every max_chars >= 0 the excerpt is never longer than
\* min(max_chars, MAX_MATCH_TEXT_CHARS).
C10_ExcerptCap ==
    (ret.kind = "excerpt" /\ call.max_chars >= 0) =>
        Len(ret.text) <= Min(call.max_chars, MAX_MATCH_TEXT_CHARS)

\* material longer than both budgets, cut to exactly MAX_MATCH_TEXT_CHARS
C10_Witness ==
    /\ ret.kind = "excerpt"
    /\ call.max_chars > MAX_MATCH_TEXT_CHARS
    /\ Len(call.paragraphs) >= 4
    /\ Len(call.paragraphs[1]) = LongParaLen
    /\ Len(ret.text) = MAX_MATCH_TEXT_CHARS

(***************************************************************************)
(* SpecChunk: notion_api._chunk_text as a pure function                     *)
(***************************************************************************)
\* text.split("\n"): the lines of s from position i on, cur the line so far
RECURSIVE SplitLines(_, _, _)
SplitLines(s, i, cur) ==
    IF i > Len(s) THEN <<cur>>
    ELSE IF s[i] = "\n" THEN <<cur>> \o SplitLines(s, i + 1, <<>>)
    ELSE SplitLines(s, i + 1, Append(cur, s[i]))

\* line 257: [p.strip() for p in text.split("\n") if p.strip()]
Paras(text) ==
    LET lines == SplitLines(text, 1, <<>>)
        stripped == [i \in 1..Len(lines) |-> Strip(lines[i])]
    IN SelectSeq(stripped, LAMBDA p : p # <<>>)

\* lines 268-270: p[start : start + max_len] while start < len(p) (start
\* counted from 1 here)
RECURSIVE HardSplit(_, _, _)
HardSplit(p, start, max_len) ==
    IF start > Len(p) THEN <<>>
    ELSE <<SubSeq(p, start, Min(Len(p), start + max_len - 1))>>
         \o HardSplit(p, start + max_len, max_len)

\* a bug: the joining newline not counted
FitsNoSep(cur, p, max_len) == Len(cur) + Len(p) <= max_len

\* line 273: len(cur) + len(p) + 1 <= max_len
Fits(cur, p, max_len) == Len(cur) + Len(p) + 1 <= max_len

\* lines 261-283: the loop over the paragraphs from the i-th on
RECURSIVE ChunkLoop(_, _, _, _, _)
ChunkLoop(paras, i, chunks, cur, max_len) ==
    IF i > Len(paras)
    THEN IF cur # <<>> THEN Append(chunks, cur) ELSE chunks
    ELSE LET p == paras[i]
         IN IF Len(p) > max_len
            THEN ChunkLoop(paras, i + 1,
                           (IF cur # <<>> THEN Append(chunks, cur) ELSE chunks)
                               \o HardSplit(p, 1, max_len),
                           <<>>, max_len)
            ELSE IF Fits(cur, p, max_len)
            THEN ChunkLoop(paras, i + 1, chunks, Strip(cur \o <<"\n">> \o p), max_len)
            ELSE ChunkLoop(paras, i + 1,
                           IF cur # <<>> THEN Append(chunks, cur) ELSE chunks,
                           p, max_len)

\* _chunk_text, for max_len >= 1
chunk_text(text, max_len) ==
    IF text = <<>> THEN << <<>> >>
    ELSE ChunkLoop(Paras(text), 1, <<>>, <<>>, max_len)

MaxTextLen == 6
MaxChunkLen == 4
ChunkAlphabet == {"a", "b", " ", "\n"}

ChunkCalls ==
    {[fn |-> "_chunk_text", text |-> t, max_len |-> m] :
        t \in UNION {[1..n -> ChunkAlphabet] : n \in 1..MaxTextLen},
        m \in 1..MaxChunkLen}

InitChunk ==
    /\ PipeInit
    /\ call \in ChunkCalls
    /\ ret = NoRet

ApplyChunkText ==
    /\ call.fn = "_chunk_text"
    /\ ret = NoRet
    /\ ret' = [kind |-> "chunks", chunks |-> chunk_text(call.text, call.max_len)]
    /\ UNCHANGED <<pipeVars, call>>

NextChunk == ApplyChunkText

SpecChunk == InitChunk /\ [][NextChunk]_vars

\* the characters of the text that belong to a non-blank line and lie
\* between its first and its last non-whitespace character
SameLine(text, i, j) == \A k \in Min(i, j)..Max(i, j) : text[k] # "\n"

LineContent(text) ==
    LET Inside(i) ==
           /\ \E j \in 1..i : ~IsWs(text[j]) /\ SameLine(text, j, i)
           /\ \E j \in i..Len(text) : ~IsWs(text[j]) /\ SameLine(text, i, j)
        marked == [i \in 1..Len(text) |-> <<text[i], Inside(i)>>]
        kept == SelectSeq(marked, LAMBDA m : m[2])
    IN [i \in 1..Len(kept) |-> kept[i][1]]

RECURSIVE Concat(_)
Concat(ss) == IF ss = <<>> THEN <<>> ELSE Head(ss) \o Concat(Tail(ss))

\* C11: for a non-empty text and max_len >= 1 no chunk is longer than
\* max_len, and the chunks joined in order, with the newlines put between
\* merged lines taken out, are the text's stripped non-blank lines in order.
C11_Chunks ==
    ret.kind = "chunks" =>
        /\ \A i \in DOMAIN ret.chunks : Len(ret.chunks[i]) <= call.max_len
        /\ SelectSeq(Concat(ret.chunks), LAMBDA c : c # "\n") = LineContent(call.text)

\* two lines merged into one chunk and a padded third line in its own chunk
C11_Witness ==
    /\ ret.kind = "chunks"
    /\ call.max_len = 3
    /\ call.text = <<"a", "\n", "b", "\n", " ", "a">>
    /\ ret.chunks = << <<"a", "\n", "b">>, <<"a">> >>

(***************************************************************************)
(* SpecSelect: the Draft Selector (main() lines 261-280) applied to the    *)
(* result of one candidate query over a Research Library of draft-ready    *)
(* rows                                                                    *)
(***************************************************************************)
MaxLibrary == 10

LibraryTitles ==
    << {}, {"governance"}, {"portfolio governance"}, {"platform engineering"} >>

\* draft-ready rows: Usefulness Score 70, 75 or 80
Library ==
    [i \in 1..MaxLibrary |->
       [title |-> LibraryTitles[(i % 4) + 1], url |-> "u", source |-> {},
        pub |-> IsoInstant(StartDay, 0), processed |-> TRUE, use |-> TRUE,
        score |-> ScoreScale * (70 + 5 * (i % 3)), summary |-> {},
        conf |-> 60, writes |-> 1]]

RECURSIVE Ascending(_)
Ascending(S) ==
    IF S = {} THEN <<>>
    ELSE LET m == CHOOSE x \in S : \A y \in S : x <= y
         IN <<m>> \o Ascending(S \ {m})

RECURSIVE Reverse(_)
Reverse(s) == IF s = <<>> THEN <<>> ELSE Reverse(Tail(s)) \o <<Head(s)>>

\* the rows of S in the order of the query's sort on Usefulness Score; rows
\* of equal score in creation order (up) or in the opposite order
QueryResult(S, up) ==
    LET Class(v) == Ascending({i \in S : Library[i].score = ScoreScale * v})
        Ord(v) == IF up THEN Class(v) ELSE Reverse(Class(v))
    IN Ord(80) \o Ord(75) \o Ord(70)

SelectCalls ==
    {[fn |-> "select", candidates |-> QueryResult(S, up), topic |-> t] :
        S \in (SUBSET (1..MaxLibrary)) \ {{}}, up \in BOOLEAN,
        t \in {TOPIC_ROTATION[i] : i \in DOMAIN TOPIC_ROTATION}}

InitSelect ==
    /\ now = StartDay
    /\ seen = {}
    /\ rows = Library
    /\ queue = <<>>
    /\ ipc = [pc |-> "idle"]
    /\ spc = [pc |-> "idle"]
    /\ dpc = [p \in {1, 2} |-> [pc |-> "idle"]]
    /\ call \in SelectCalls
    /\ ret = NoRet

ApplySelect ==
    /\ call.fn = "select"
    /\ ret = NoRet
    /\ ret' = [kind |-> "selected",
               selected |-> SelectSources(call.candidates, call.topic)]
    /\ UNCHANGED <<pipeVars, call>>

NextSelect == ApplySelect

SpecSelect == InitSelect /\ [][NextSelect]_vars

\* usefulness_score + 5 * (topic keywords found), times ScoreScale
CombinedOf(id, topic) ==
    rows[id].score
    + 5 * ScoreScale
        * Cardinality({k \in DOMAIN KeywordsOfTopic(topic) :
                         \E m \in rows[id].title \cup rows[id].summary :
                            <<KeywordsOfTopic(topic)[k], m>> \in TopicKeywordInside})

\* the position of a row in the query result
PosIn(cands, id) == CHOOSE k \in DOMAIN cands : cands[k] = id

\* C19: the selection has at most MAX_SOURCES (8) candidates of the pool, each
\* once, in descending order of combined; candidates of equal combined stand
\* in the order of the query result; and no candidate left out has a greater
\* combined than a selected one.
C19_Selection ==
    ret.kind = "selected"
       => LET sel == ret.selected
              cands == call.candidates
              InPool(id) == \E k \in DOMAIN cands : cands[k] = id
              Chosen(id) == \E k \in DOMAIN sel : sel[k] = id
              c(id) == CombinedOf(id, call.topic)
          IN /\ Len(sel) = Min(Len(cands), 8)
             /\ \A k \in DOMAIN sel : InPool(sel[k])
             /\ \A j, k \in DOMAIN sel : j < k =>
                   /\ sel[j] # sel[k]
                   /\ c(sel[j]) >= c(sel[k])
                   /\ c(sel[j]) = c(sel[k]) => PosIn(cands, sel[j]) < PosIn(cands, sel[k])
             /\ \A k \in DOMAIN cands : ~Chosen(cands[k]) =>
                   \A j \in DOMAIN sel : c(cands[k]) <= c(sel[j])

\* ten candidates, the query's order changed by the topic keywords, two
\* selected candidates with equal combined and different scores, and a
\* candidate left out
C19_Witness ==
    /\ ret.kind = "selected"
    /\ Len(call.candidates) = 10
    /\ Len(ret.selected) = 8
    /\ ret.selected # Prefix(call.candidates, 8)
    /\ \E j, k \in DOMAIN ret.selected :
          /\ j < k
          /\ rows[ret.selected[j]].score # rows[ret.selected[k]].score
          /\ CombinedOf(ret.selected[j], call.topic) = CombinedOf(ret.selected[k], call.topic)

(***************************************************************************)
(* SpecRace: two draft-builder runs (two scheduler triggers, or a manual   *)
(* run beside the scheduled one) whose steps interleave, over a Research   *)
(* Library with two draft-ready rows                                       *)
(***************************************************************************)
RaceLibrary == SubSeq(Library, 1, 2)

InitRace ==
    /\ now = StartDay
    /\ seen = {}
    /\ rows = RaceLibrary
    /\ queue = <<>>
    /\ ipc = [pc |-> "idle"]
    /\ spc = [pc |-> "idle"]
    /\ dpc = [p \in {1, 2} |-> [pc |-> "idle"]]
    /\ call = NoCall
    /\ ret = NoRet

DraftStep(p) ==
    \/ DraftStart(p) \/ DraftSelect(p) \/ DraftGenerate(p) \/ DraftCreatePage(p)
    \/ DraftSetProps(p) \/ DraftAppendSection(p) \/ DraftExit(p)

NextRace == Tick \/ DraftStep(1) \/ DraftStep(2)

SpecRace == InitRace /\ [][NextRace]_vars

\* the check of a run reads the queue and does not write it; the page is
\* written by a later step of the run, which does not look at the queue again
CheckThenWrite ==
    \A p \in DOMAIN dpc :
       /\ (dpc[p].pc = "idle" /\ dpc'[p].pc # "idle")
             => /\ queue' = queue
                /\ dpc'[p].pc = "topic" <=> PagesOfWeek(dpc'[p].week_of) = {}
       /\ (dpc[p].pc = "package" /\ dpc'[p].pc = "created")
             => /\ Len(queue') = Len(queue) + 1
                /\ queue'[Len(queue')].week_of = dpc[p].week_of

\* C20: the duplicate check is a read (the queue is not changed by it) and the
\* page is created by a separate, later write; two interleaved runs can
\* therefore both create a page for one week, and a week never gets more
\* pages than there are interleaved runs.
C20_CheckThenWrite ==
    /\ [](\A i \in DOMAIN queue : Cardinality(PagesOfWeek(queue[i].week_of)) <= 2)
    /\ [][CheckThenWrite]_vars

\* both runs are past their create call for the same week: each passed the
\* check before the other created its page, and the queue holds two pages
\* with that week key
C20_Witness ==
    /\ dpc[1].pc = "created" /\ dpc[2].pc = "created"
    /\ dpc[1].week_of = dpc[2].week_of
    /\ dpc[1].page_id # dpc[2].page_id
    /\ queue[dpc[1].page_id].week_of = dpc[1].week_of
    /\ queue[dpc[2].page_id].week_of = dpc[1].week_of
    /\ Cardinality(PagesOfWeek(dpc[1].week_of)) = 2

====
